---------------------------- MODULE Spec2Model ----------------------------
(***************************************************************************)
(* Model of scripts/kitten_tts_bridge.py: the command-line bridge between  *)
(* Careless Whisper and KittenTTS.                                         *)
(*                                                                         *)
(* Three specifications share this module:                                 *)
(*   Spec      one invocation of the script: module-level setup,           *)
(*             argparse, main and CarelessKittenBridge.generate_audio;     *)
(*   SpecEnv   the module-level eSpeak environment repair (os.environ,     *)
(*             sys.path) and PatchedEspeakBackend.__init__;                *)
(*   SpecPhon  the sys.modules patches and PatchedEspeakBackend.phonemize. *)
(*                                                                         *)
(* Python strings whose characters matter (PATH, sys.path entries, espeak  *)
(* output, texts to phonemize) are sequences of one-character strings.     *)
(***************************************************************************)
EXTENDS Integers, Sequences, FiniteSets, TLC

VARIABLES
    \* ---- Spec: one invocation of the script
    pc,             \* position of the process
    argv,           \* the command line, as given
    args,           \* the argparse Namespace (meaningful once parsed)
    exitCode,       \* the process exit code, NoExit while running
    stdout,         \* what was written to standard output, in order
    stderr,         \* what was written to standard error, in order
    model,          \* CarelessKittenBridge.model: "None" or "KittenTTS"
    trace,          \* history: the external calls and checks made, in order
    file,           \* the file at the output path
    written,        \* the call of generate_to_file touched the output path
    ret,            \* return value of generate_audio: "unset", "True", "False"
    uncaught,       \* an exception left generate_audio
    \* ---- SpecEnv: environment repair
    epc,            \* position in the module-level setup
    espeak_exe_exists,
    espeak_data_exists,
    environ,        \* os.environ: PATH and the ESPEAK_* / PHONEMIZER_* variables
    sys_path,       \* sys.path
    environ0,       \* history: os.environ when the script started
    sys_path0,      \* history: sys.path when the script started
    backend_exe,    \* PatchedEspeakBackend.espeak_exe
    \* ---- SpecPhon: phonemizer patches and phonemize
    ppc,            \* position
    sys_modules,    \* what 'phonemizer.backend.espeak' resolves to
    backend,        \* the EspeakBackend class the importer got
    text_arg,       \* the argument of phonemize: a str or a list of str
    text_list,      \* the list phonemize iterates over
    results,        \* phonemize's results list
    returned,       \* what phonemize returned
    calls,          \* history: outcome of each espeak subprocess call
    tiers           \* history: per text, the phoneme sources tried, in order

mainVars == <<pc, argv, args, exitCode, stdout, stderr, model, trace, file,
              written, ret, uncaught>>
envVars  == <<epc, espeak_exe_exists, espeak_data_exists, environ, sys_path,
              environ0, sys_path0, backend_exe>>
phonVars == <<ppc, sys_modules, backend, text_arg, text_list, results,
              returned, calls, tiers>>
vars     == <<mainVars, envVars, phonVars>>

(***************************************************************************)
(* Bounds of the model                                                     *)
(***************************************************************************)
MaxFileSize == 2
MaxPathEntries == 2
MaxTexts == 2


(***************************************************************************)
(* Values                                                                  *)
(***************************************************************************)
\* no exit code yet: a value the script never passes to sys.exit
NoExit == 0 - 1

\* An optional command-line string: None when the flag is absent.
None == [some |-> FALSE, v |-> <<>>]
Some(s) == [some |-> TRUE, v |-> s]
\* Python truthiness of an optional string: None and "" are falsy.
Truthy(o) == o.some /\ Len(o.v) > 0

\* A float, in hundredths; NaN compares false with everything.
Float(h) == [nan |-> FALSE, h |-> h]
NaN == [nan |-> TRUE, h |-> 0]
FloatLe(a, b) == ~a.nan /\ ~b.nan /\ a.h <= b.h

SpeedMin == 50
SpeedMax == 200
DefaultSpeed == 100
DefaultVoice == "expr-voice-2-f"

supported_voices ==
    << "expr-voice-2-m", "expr-voice-2-f",
       "expr-voice-3-m", "expr-voice-3-f",
       "expr-voice-4-m", "expr-voice-4-f",
       "expr-voice-5-m", "expr-voice-5-f" >>

\* The dict of list_voices, in insertion order (the order its items() yield).
voice_descriptions ==
    << <<"expr-voice-2-m", "Male Voice #2 - Expressive">>,
       <<"expr-voice-2-f", "Female Voice #2 - Expressive">>,
       <<"expr-voice-3-m", "Male Voice #3 - Expressive">>,
       <<"expr-voice-3-f", "Female Voice #3 - Expressive">>,
       <<"expr-voice-4-m", "Male Voice #4 - Expressive">>,
       <<"expr-voice-4-f", "Female Voice #4 - Expressive">>,
       <<"expr-voice-5-m", "Male Voice #5 - Expressive">>,
       <<"expr-voice-5-f", "Female Voice #5 - Expressive">> >>

InSeq(x, s) == \E i \in 1..Len(s) : s[i] = x

(***************************************************************************)
(* What the process writes                                                 *)
(***************************************************************************)
\* _error: {"success": false, "error": message}
JsonError(message) ==
    [kind |-> "json", success |-> FALSE, error |-> message]
\* _success: {"success": true, **data}
JsonSuccess(data) ==
    [kind |-> "json", success |-> TRUE, data |-> data]
\* argparse's usage text and error line: not JSON
UsageText == [kind |-> "usage", success |-> FALSE]
\* the interpreter's traceback of an uncaught exception: not JSON
Traceback == [kind |-> "traceback", success |-> FALSE]

(***************************************************************************)
(* The command line                                                        *)
(***************************************************************************)
Absent == "<absent>"
SpeedTokens == {Absent, "0.49", "0.5", "1.0", "2.0", "2.01", "nan", "abc"}
VoiceTokens == {Absent, "expr-voice-5-m", "expr-voice-9-x"}
TextValues == {None, Some(<<>>), Some(<<"h", "i">>)}
OutputValues == {None, Some(<<>>), Some(<<"o", ".", "w", "a", "v">>)}

Argvs ==
    [list_voices : BOOLEAN, text : TextValues, output : OutputValues,
     voice : VoiceTokens, speed : SpeedTokens, unknown_flag : BOOLEAN]

\* float(token) succeeds
IsFloatLiteral(tok) == tok \in {"0.49", "0.5", "1.0", "2.0", "2.01", "nan"}
\* float(token)
FloatOf(tok) ==
    CASE tok = "0.49" -> Float(49)
      [] tok = "0.5"  -> Float(50)
      [] tok = "1.0"  -> Float(100)
      [] tok = "2.0"  -> Float(200)
      [] tok = "2.01" -> Float(201)
      [] tok = "nan"  -> NaN

\* parser.parse_args() rejects the command line (parser.error: usage on
\* standard error, SystemExit(2))
ArgparseRejects(a) ==
    \/ a.unknown_flag
    \/ a.speed # Absent /\ ~IsFloatLiteral(a.speed)

\* The Namespace parse_args returns for an accepted command line.
Namespace(a) ==
    [list_voices |-> a.list_voices,
     text   |-> a.text,
     output |-> a.output,
     voice  |-> IF a.voice = Absent THEN DefaultVoice ELSE a.voice,
     speed  |-> IF a.speed = Absent THEN Float(DefaultSpeed) ELSE FloatOf(a.speed)]

NoNamespace ==
    [list_voices |-> FALSE, text |-> None, output |-> None,
     voice |-> DefaultVoice, speed |-> Float(DefaultSpeed)]

(***************************************************************************)
(* The output file                                                         *)
(***************************************************************************)
Missing == [exists |-> FALSE, size |-> 0]
FileOf(n) == [exists |-> TRUE, size |-> n]
FileStates == {Missing} \cup {FileOf(n) : n \in 0..MaxFileSize}

(***************************************************************************)
(* Spec: one invocation                                                    *)
(***************************************************************************)
InitEnvIdle ==
    /\ epc = "idle"
    /\ espeak_exe_exists = FALSE
    /\ espeak_data_exists = FALSE
    /\ environ = <<>>
    /\ sys_path = <<>>
    /\ environ0 = <<>>
    /\ sys_path0 = <<>>
    /\ backend_exe = <<>>

InitPhonIdle ==
    /\ ppc = "idle"
    /\ sys_modules = "absent"
    /\ backend = "none"
    /\ text_arg = <<>>
    /\ text_list = <<>>
    /\ results = <<>>
    /\ returned = <<>>
    /\ calls = <<>>
    /\ tiers = <<>>

Init ==
    /\ pc = "setup"
    /\ argv \in Argvs
    /\ args = NoNamespace
    /\ exitCode = NoExit
    /\ stdout = <<>>
    /\ stderr = <<>>
    /\ model = "None"
    /\ trace = <<>>
    /\ file \in FileStates
    /\ written = FALSE
    /\ ret = "unset"
    /\ uncaught = FALSE
    /\ InitEnvIdle
    /\ InitPhonIdle

\* sys.exit(code), or the end of the script (code 0)
Exit(code) ==
    /\ pc' = "exited"
    /\ exitCode' = code

\* The module-level try block: the patches, then "from kittentts import
\* KittenTTS"; both except clauses print an error object and sys.exit(1).
ModuleSetup ==
    /\ pc = "setup"
    /\ \E outcome \in {"ok", "ImportError", "Exception"} :
         IF outcome = "ok"
         THEN /\ pc' = "parse"
              /\ UNCHANGED <<exitCode, stderr>>
         ELSE /\ stderr' = Append(stderr,
                     JsonError(IF outcome = "ImportError"
                               THEN "KittenTTS setup failed"
                               ELSE "Unexpected error during setup"))
              /\ Exit(1)
    /\ UNCHANGED <<argv, args, stdout, model, trace, file, written, ret,
                   uncaught>>
    /\ UNCHANGED <<envVars, phonVars>>

\* main, lines 279-286: build the parser and parse the command line.
ParseArgs ==
    /\ pc = "parse"
    /\ IF ArgparseRejects(argv)
       THEN /\ stderr' = Append(stderr, UsageText)
            /\ Exit(2)
            /\ UNCHANGED args
       ELSE /\ args' = Namespace(argv)
            /\ pc' = "main"
            /\ UNCHANGED <<stderr, exitCode>>
    /\ UNCHANGED <<argv, stdout, model, trace, file, written, ret, uncaught>>
    /\ UNCHANGED <<envVars, phonVars>>

\* list_voices: the object it hands to _success
ListVoicesData ==
    [voices |-> [i \in 1..Len(voice_descriptions) |->
                   [id |-> voice_descriptions[i][1],
                    description |-> voice_descriptions[i][2]]]]

\* main, lines 288-296: the bridge is constructed (model None), then
\* --list-voices returns, and missing --text/--output is an error.
Main ==
    /\ pc = "main"
    /\ IF args.list_voices
       THEN /\ stdout' = Append(stdout, JsonSuccess(ListVoicesData))
            /\ Exit(0)
            /\ UNCHANGED stderr
       ELSE IF ~Truthy(args.text) \/ ~Truthy(args.output)
       THEN /\ stderr' = Append(stderr,
                 JsonError("Both --text and --output are required for TTS generation"))
            /\ Exit(1)
            /\ UNCHANGED stdout
       ELSE /\ pc' = "generate_audio"
            /\ UNCHANGED <<stdout, stderr, exitCode>>
    /\ UNCHANGED <<argv, args, model, trace, file, written, ret, uncaught>>
    /\ UNCHANGED <<envVars, phonVars>>

\* generate_audio returns False after _error(message).
Fail(message) ==
    /\ stderr' = Append(stderr, JsonError(message))
    /\ ret' = "False"
    /\ pc' = "return"

\* initialize_model: try KittenTTS(...); except Exception: _error, False.
InitializeModel(constructed) ==
    /\ trace' = IF constructed
                THEN Append(trace, "KittenTTS")
                ELSE trace \o <<"KittenTTS", "KittenTTS:raised">>
    /\ IF constructed
       THEN /\ model' = "KittenTTS"
            /\ pc' = "validate"
            /\ UNCHANGED <<stderr, ret>>
       ELSE /\ Fail("Failed to initialize KittenTTS")
            /\ UNCHANGED model

\* generate_audio, lines 202-204: the lazy model construction.
GenerateAudioEnter ==
    /\ pc = "generate_audio"
    /\ IF model = "None"
       THEN \E constructed \in BOOLEAN : InitializeModel(constructed)
       ELSE /\ pc' = "validate"
            /\ UNCHANGED <<model, trace, stderr, ret>>
    /\ UNCHANGED <<argv, args, exitCode, stdout, file, written, uncaught>>
    /\ UNCHANGED <<envVars, phonVars>>

\* voice in self.supported_voices
VoiceSupported(voice) == InSeq(voice, supported_voices)
\* Mutant: the upper bound of the speed is not checked.
SpeedInRange_NoUpperBound(speed) == FloatLe(Float(SpeedMin), speed)

\* 0.5 <= speed <= 2.0
SpeedInRange(speed) ==
    FloatLe(Float(SpeedMin), speed) /\ FloatLe(speed, Float(SpeedMax))

\* generate_audio, lines 207-215: the two validations.
Validate ==
    /\ pc = "validate"
    /\ IF ~VoiceSupported(args.voice)
       THEN /\ trace' = Append(trace, "check_voice")
            /\ Fail("Unsupported voice")
       ELSE IF ~SpeedInRange(args.speed)
       THEN /\ trace' = trace \o <<"check_voice", "check_speed">>
            /\ Fail("Speed must be between 0.5 and 2.0")
       ELSE /\ trace' = trace \o <<"check_voice", "check_speed">>
            /\ pc' = "synthesize"
            /\ UNCHANGED <<stderr, ret>>
    /\ UNCHANGED <<argv, args, exitCode, stdout, model, file, written,
                   uncaught>>
    /\ UNCHANGED <<envVars, phonVars>>

\* Mutant: generate_audio without its except clause; the exception leaves
\* generate_audio and main, and the interpreter ends with a traceback.
GenerateAudioExcept_Propagates ==
    /\ uncaught' = TRUE
    /\ stderr' = Append(stderr, Traceback)
    /\ pc' = "exited"
    /\ exitCode' = 1
    /\ UNCHANGED ret

\* The except clause of generate_audio, lines 244-246.
GenerateAudioExcept ==
    /\ Fail("TTS generation failed")
    /\ UNCHANGED <<uncaught, exitCode>>

\* generate_audio, lines 218-223: the one call of model.generate_to_file.
\* The library may write the output path or not, and return or raise.
Synthesize ==
    /\ pc = "synthesize"
    /\ \/ UNCHANGED <<file, written>>
       \/ \E f \in FileStates : file' = f /\ written' = TRUE
    /\ \E raised \in BOOLEAN :
         IF raised
         THEN /\ trace' = trace \o <<"generate_to_file", "generate_to_file:raised">>
              /\ GenerateAudioExcept
         ELSE /\ trace' = Append(trace, "generate_to_file")
              /\ pc' = "verify"
              /\ UNCHANGED <<stderr, ret, uncaught, exitCode>>
    /\ UNCHANGED <<argv, args, stdout, model>>
    /\ UNCHANGED <<envVars, phonVars>>

\* The object generate_audio hands to _success.
AudioData(file_size) ==
    [output_path |-> args.output.v, file_size |-> file_size,
     voice |-> args.voice, speed |-> args.speed,
     text_length |-> Len(args.text.v)]

\* Mutant: the output file's size is reported without the check for zero.
VerifyOutput_NoEmptyCheck(oserror) ==
    IF ~file.exists
    THEN /\ trace' = Append(trace, "verify_output")
         /\ Fail("Output file not created")
         /\ UNCHANGED <<stdout, uncaught, exitCode>>
    ELSE IF oserror
    THEN /\ trace' = trace \o <<"verify_output", "verify_output:raised">>
         /\ GenerateAudioExcept
         /\ UNCHANGED stdout
    ELSE /\ trace' = Append(trace, "verify_output")
         /\ stdout' = Append(stdout, JsonSuccess(AudioData(file.size)))
         /\ ret' = "True"
         /\ pc' = "return"
         /\ UNCHANGED <<stderr, uncaught, exitCode>>

\* generate_audio, lines 226-242, given whether a file check raised.
VerifyOutput(oserror) ==
    IF ~file.exists
    THEN /\ trace' = Append(trace, "verify_output")
         /\ Fail("Output file not created")
         /\ UNCHANGED <<stdout, uncaught, exitCode>>
    ELSE IF oserror
    THEN /\ trace' = trace \o <<"verify_output", "verify_output:raised">>
         /\ GenerateAudioExcept
         /\ UNCHANGED stdout
    ELSE IF file.size = 0
    THEN /\ trace' = Append(trace, "verify_output")
         /\ Fail("Output file is empty")
         /\ UNCHANGED <<stdout, uncaught, exitCode>>
    ELSE /\ trace' = Append(trace, "verify_output")
         /\ stdout' = Append(stdout, JsonSuccess(AudioData(file.size)))
         /\ ret' = "True"
         /\ pc' = "return"
         /\ UNCHANGED <<stderr, uncaught, exitCode>>

Verify ==
    /\ pc = "verify"
    /\ \E oserror \in BOOLEAN : VerifyOutput(oserror)
    /\ UNCHANGED <<argv, args, model, file, written>>
    /\ UNCHANGED <<envVars, phonVars>>

\* main, line 299: sys.exit(0 if success else 1)
MainExit ==
    /\ pc = "return"
    /\ Exit(IF ret = "True" THEN 0 ELSE 1)
    /\ UNCHANGED <<argv, args, stdout, stderr, model, trace, file, written,
                   ret, uncaught>>
    /\ UNCHANGED <<envVars, phonVars>>

Next ==
    \/ ModuleSetup
    \/ ParseArgs
    \/ Main
    \/ GenerateAudioEnter
    \/ Validate
    \/ Synthesize
    \/ Verify
    \/ MainExit

Spec == Init /\ [][Next]_vars


(***************************************************************************)
(* Claims about one invocation (Spec)                                      *)
(***************************************************************************)
IsJson(o) == o.kind = "json"
IsJsonSuccess(o) == o.kind = "json" /\ o.success
IsJsonError(o) == o.kind = "json" /\ ~o.success
Count(s, e) == Cardinality({i \in 1..Len(s) : s[i] = e})
Exited == pc = "exited"
SetupFailed ==
    \E i \in 1..Len(stderr) :
        /\ IsJsonError(stderr[i])
        /\ stderr[i].error \in {"KittenTTS setup failed",
                                "Unexpected error during setup"}
\* the operation asked for was carried out: the voices were listed, or the
\* audio file was generated
OperationSucceeded ==
    \E i \in 1..Len(stdout) : IsJsonSuccess(stdout[i])

\* C1: every invocation ends with exit code 0 if the requested operation
\* succeeded and with exit code 1 if it failed; no other exit code occurs.
C1_ExitCodeZeroOrOne ==
    Exited =>
        \/ exitCode = 0 /\ OperationSucceeded
        \/ exitCode = 1 /\ ~OperationSucceeded

\* C2: every invocation writes exactly one JSON object in total: a success
\* object on standard output, or an error object on standard error.
C2_ExactlyOneJsonObject ==
    Exited =>
        \/ /\ Len(stdout) = 1 /\ IsJsonSuccess(stdout[1])
           /\ stderr = <<>>
        \/ /\ Len(stderr) = 1 /\ IsJsonError(stderr[1])
           /\ stdout = <<>>

\* C3: generate_audio never lets an exception out. Whatever raised (the
\* model's construction, generate_to_file, a check of the output file), it
\* returns False with an error object as the last thing written and no
\* success object; it returns True only with the success object written.
C3_GenerateAudioNeverRaises ==
    /\ ~uncaught
    /\ (Exited /\ InSeq("KittenTTS", trace)) => ret \in {"True", "False"}
    /\ (\E e \in {"KittenTTS:raised", "generate_to_file:raised",
                  "verify_output:raised"} : InSeq(e, trace))
          => /\ pc \in {"return", "exited"}
             /\ ret = "False"
    /\ ret = "False" =>
          /\ stdout = <<>>
          /\ Len(stderr) = 1 /\ IsJsonError(stderr[1])
    /\ ret = "True" =>
          /\ Len(stdout) = 1 /\ IsJsonSuccess(stdout[1])
          /\ stderr = <<>>

C3_Witness ==
    /\ pc = "return"
    /\ ret = "False"
    /\ InSeq("generate_to_file:raised", trace)
    /\ IsJsonError(stderr[Len(stderr)])

\* the speed and the voice of the command line, read against the limits of
\* the interface: 0.5 to 2.0, and the eight voices
C7_SpeedAccepted ==
    /\ ~args.speed.nan
    /\ args.speed.h >= 50
    /\ args.speed.h <= 200
C7_VoiceAccepted ==
    args.voice \in {supported_voices[i] : i \in 1..Len(supported_voices)}

\* C7: generate_to_file is called at most once, and only with the model
\* constructed (once, lazily; a failed construction returns before any
\* validation), then the voice found among supported_voices, then
\* 0.5 <= speed <= 2.0, both bounds included; with an unsupported voice or a
\* speed out of range nothing is synthesized and the output file is not
\* written.
C7_SynthesisOnlyAfterValidation ==
    /\ Count(trace, "generate_to_file") <= 1
    /\ Count(trace, "KittenTTS") <= 1
    /\ InSeq("KittenTTS:raised", trace) =>
          /\ ~InSeq("check_voice", trace)
          /\ ~InSeq("check_speed", trace)
          /\ ret = "False"
    /\ InSeq("generate_to_file", trace) =>
          /\ model = "KittenTTS"
          /\ C7_VoiceAccepted
          /\ C7_SpeedAccepted
          /\ SubSeq(trace, 1, 4) =
                <<"KittenTTS", "check_voice", "check_speed", "generate_to_file">>
    /\ (~C7_VoiceAccepted \/ ~C7_SpeedAccepted) =>
          /\ ~InSeq("generate_to_file", trace)
          /\ ~written
    /\ (pc \in {"return", "exited"} /\ model = "KittenTTS"
           /\ C7_VoiceAccepted /\ C7_SpeedAccepted)
          => InSeq("generate_to_file", trace)

C7_Witness ==
    /\ InSeq("generate_to_file", trace)
    /\ args.speed.h \in {50, 200}
    /\ written

\* C8: success is reported (success object, return True, exit code 0) only
\* if generate_to_file returned and the output path then exists with a
\* non-zero size, which is the file_size reported; a missing or empty file
\* after the synthesis is an error and False.
C8_SuccessMeansNonEmptyFile ==
    /\ (ret = "True" \/ (model = "KittenTTS" /\ OperationSucceeded)) =>
          /\ InSeq("generate_to_file", trace)
          /\ ~InSeq("generate_to_file:raised", trace)
          /\ file.exists
          /\ file.size > 0
          /\ Len(stdout) = 1
          /\ IsJsonSuccess(stdout[1])
          /\ stdout[1].data.file_size = file.size
          /\ ret = "True"
          /\ Exited => exitCode = 0
    /\ (InSeq("verify_output", trace) /\ (~file.exists \/ file.size = 0)) =>
          /\ ret = "False"
          /\ stdout = <<>>
          /\ IsJsonError(stderr[Len(stderr)])
          /\ Exited => exitCode = 1

C8_Witness ==
    /\ Exited
    /\ exitCode = 0
    /\ ret = "True"
    /\ file.size = MaxFileSize

\* the ids of the object --list-voices writes, in order
ListedVoiceIds ==
    [i \in 1..Len(ListVoicesData.voices) |-> ListVoicesData.voices[i].id]

\* C10: the ids --list-voices emits are supported_voices, in the same
\* order and without duplicates, the default voice is among them, and
\* --list-voices emits them with exit code 0 without constructing the
\* model, whatever the other flags are.
C10_ListedVoicesAreSupportedVoices ==
    /\ ListedVoiceIds = supported_voices
    /\ \A i, j \in 1..Len(ListedVoiceIds) :
          ListedVoiceIds[i] = ListedVoiceIds[j] => i = j
    /\ \A v \in VoiceTokens \cup {DefaultVoice} :
          VoiceSupported(v) <=> InSeq(v, ListedVoiceIds)
    /\ VoiceSupported(DefaultVoice)
    /\ (Exited /\ argv.list_voices /\ ~SetupFailed) =>
          /\ exitCode = 0
          /\ stdout = <<JsonSuccess(ListVoicesData)>>
          /\ stderr = <<>>
          /\ ~InSeq("KittenTTS", trace)
          /\ model = "None"


(***************************************************************************)
(* Strings as sequences of characters                                      *)
(***************************************************************************)
\* sub in s
Contains(s, sub) ==
    \E i \in 0..(Len(s) - Len(sub)) : SubSeq(s, i + 1, i + Len(sub)) = sub

\* s.split(sep), sep one character
RECURSIVE Split(_, _)
Split(s, sep) ==
    IF \A i \in 1..Len(s) : s[i] # sep
    THEN <<s>>
    ELSE LET i == CHOOSE k \in 1..Len(s) :
                    s[k] = sep /\ \A j \in 1..(k - 1) : s[j] # sep
         IN  <<SubSeq(s, 1, i - 1)>> \o Split(SubSeq(s, i + 1, Len(s)), sep)

\* sep.join(parts)
RECURSIVE Join(_, _)
Join(sep, parts) ==
    IF Len(parts) = 0 THEN <<>>
    ELSE IF Len(parts) = 1 THEN parts[1]
    ELSE parts[1] \o <<sep>> \o Join(sep, Tail(parts))

UpperToLower ==
     "A" :> "a" @@ "B" :> "b" @@ "C" :> "c" @@ "D" :> "d" @@ "E" :> "e" @@ "F" :> "f"
     @@ "G" :> "g" @@ "H" :> "h" @@ "I" :> "i" @@ "J" :> "j" @@ "K" :> "k" @@ "L" :> "l"
     @@ "M" :> "m" @@ "N" :> "n" @@ "O" :> "o" @@ "P" :> "p" @@ "Q" :> "q" @@ "R" :> "r"
     @@ "S" :> "s" @@ "T" :> "t" @@ "U" :> "u" @@ "V" :> "v" @@ "W" :> "w" @@ "X" :> "x"
     @@ "Y" :> "y" @@ "Z" :> "z"
LowerChar(c) == IF c \in DOMAIN UpperToLower THEN UpperToLower[c] ELSE c
\* s.lower()
Lower(s) == [i \in 1..Len(s) |-> LowerChar(s[i])]

(***************************************************************************)
(* SpecEnv: the module-level eSpeak environment repair, lines 16-43, and   *)
(* PatchedEspeakBackend.__init__                                           *)
(***************************************************************************)
\* os.pathsep; the script is written for Windows (espeak.exe, Lib\site-packages)
pathsep == ";"

\* str(espeak_exe), str(espeak_exe.parent), str(espeak_data): python_dir is "B:"
EspeakExePath == <<"B", ":", "\\", "e", "s", "p", "e", "a", "k", "\\", "e", "s", "p", "e", "a", "k", ".", "e", "x", "e">>
EspeakDir == <<"B", ":", "\\", "e", "s", "p", "e", "a", "k">>
EspeakDataPath == <<"B", ":", "\\", "e", "s", "p", "e", "a", "k", "\\", "e", "s", "p", "e", "a", "k", "-", "d", "a", "t", "a">>

\* The needles of the two filters
lit_AppData == <<"A", "p", "p", "D", "a", "t", "a">>
lit_site_packages == <<"s", "i", "t", "e", "-", "p", "a", "c", "k", "a", "g", "e", "s">>
lit_Lib_site_packages == <<"L", "i", "b", "\\", "s", "i", "t", "e", "-", "p", "a", "c", "k", "a", "g", "e", "s">>
lit_eSpeak == <<"e", "S", "p", "e", "a", "k">>
lit_espeak == <<"e", "s", "p", "e", "a", "k">>

\* Entries a PATH may hold before the script runs
PathEntryPool ==
    { <<"C", ":", "\\", "W">>,
      <<"C", ":", "\\", "e", "S", "p", "e", "a", "k">>,
      <<"D", ":", "\\", "e", "s", "p", "e", "a", "k", "\\", "x">>,
      <<"C", ":", "\\", "E", "S", "P", "E", "A", "K">> }

\* Entries sys.path may hold before the script runs
SysPathEntryPool ==
    { <<"B", ":", "\\", "s">>,
      <<"B", ":", "\\", "z">>,
      <<"B", ":", "\\", "L", "i", "b", "\\", "s", "i", "t", "e", "-", "p", "a", "c", "k", "a", "g", "e", "s">>,
      <<"C", ":", "\\", "A", "p", "p", "D", "a", "t", "a", "\\", "p">>,
      <<"C", ":", "\\", "A", "p", "p", "D", "a", "t", "a", "\\", "L", "i", "b", "\\", "s", "i", "t", "e", "-", "p", "a", "c", "k", "a", "g", "e", "s">>,
      <<"C", ":", "\\", "p", "\\", "s", "i", "t", "e", "-", "p", "a", "c", "k", "a", "g", "e", "s">> }

SeqsUpTo(S, n) == UNION {[1..k -> S] : k \in 0..n}

InitialPaths ==
    {None} \cup {Some(Join(pathsep, es)) : es \in SeqsUpTo(PathEntryPool, MaxPathEntries)}

Unset == [PATH |-> None, ESPEAK_EXE |-> None, ESPEAK_DATA_PATH |-> None,
          PHONEMIZER_ESPEAK_EXECUTABLE |-> None, PHONEMIZER_ESPEAK_PATH |-> None]
OldValue == Some(<<"o", "l", "d">>)
Preset == [PATH |-> None, ESPEAK_EXE |-> OldValue, ESPEAK_DATA_PATH |-> OldValue,
           PHONEMIZER_ESPEAK_EXECUTABLE |-> OldValue,
           PHONEMIZER_ESPEAK_PATH |-> OldValue]

InitMainIdle ==
    /\ pc = "idle"
    /\ argv = [list_voices |-> FALSE, text |-> None, output |-> None,
               voice |-> Absent, speed |-> Absent, unknown_flag |-> FALSE]
    /\ args = NoNamespace
    /\ exitCode = NoExit
    /\ stdout = <<>>
    /\ stderr = <<>>
    /\ model = "None"
    /\ trace = <<>>
    /\ file = Missing
    /\ written = FALSE
    /\ ret = "unset"
    /\ uncaught = FALSE

InitEnv ==
    /\ epc = "start"
    /\ espeak_exe_exists \in BOOLEAN
    /\ espeak_data_exists \in BOOLEAN
    /\ \E base \in {Unset, Preset}, path \in InitialPaths :
           environ = [base EXCEPT !.PATH = path]
    /\ sys_path \in SeqsUpTo(SysPathEntryPool, MaxPathEntries)
    /\ environ0 = environ
    /\ sys_path0 = sys_path
    /\ backend_exe = <<>>
    /\ InitMainIdle
    /\ InitPhonIdle

\* line 31: the condition of the sys.path filter; "and" binds tighter than "or"
KeepSysPath(p) ==
    \/ (~Contains(p, lit_AppData) /\ ~Contains(p, lit_site_packages))
    \/ Contains(p, lit_Lib_site_packages)

\* line 37: the condition of the PATH filter
KeepPathPart(p) == ~Contains(p, lit_eSpeak) /\ ~Contains(p, lit_espeak)

\* os.environ.get('PATH', '')
GetPath(env) == IF env.PATH.some THEN env.PATH.v ELSE <<>>

\* lines 35-38: the new value of PATH
NewPath(env) ==
    EspeakDir \o <<pathsep>> \o
        Join(pathsep, SelectSeq(Split(GetPath(env), pathsep), KeepPathPart))

\* lines 21-43
SetupEnvironment ==
    /\ epc = "start"
    /\ epc' = "environment_set"
    /\ IF espeak_exe_exists
       THEN /\ environ' =
                 [PATH |-> Some(NewPath(environ)),
                  ESPEAK_EXE |-> Some(EspeakExePath),
                  ESPEAK_DATA_PATH |->
                      IF espeak_data_exists THEN Some(EspeakDataPath)
                      ELSE environ.ESPEAK_DATA_PATH,
                  PHONEMIZER_ESPEAK_EXECUTABLE |-> Some(EspeakExePath),
                  PHONEMIZER_ESPEAK_PATH |->
                      IF espeak_data_exists THEN Some(EspeakDataPath)
                      ELSE environ.PHONEMIZER_ESPEAK_PATH]
            /\ sys_path' = SelectSeq(sys_path, KeepSysPath)
       ELSE UNCHANGED <<environ, sys_path>>
    /\ UNCHANGED <<espeak_exe_exists, espeak_data_exists, environ0, sys_path0,
                   backend_exe>>
    /\ UNCHANGED <<mainVars, phonVars>>

\* line 72: self.espeak_exe
BackendExe == IF espeak_exe_exists THEN EspeakExePath ELSE lit_espeak

\* PatchedEspeakBackend.__init__, lines 64-72
BackendInit ==
    /\ epc = "environment_set"
    /\ epc' = "backend_constructed"
    /\ backend_exe' = BackendExe
    /\ UNCHANGED <<espeak_exe_exists, espeak_data_exists, environ, sys_path,
                   environ0, sys_path0>>
    /\ UNCHANGED <<mainVars, phonVars>>

NextEnv ==
    \/ SetupEnvironment
    \/ BackendInit

SpecEnv == InitEnv /\ [][NextEnv]_vars

(***************************************************************************)
(* Claims about the environment repair (SpecEnv)                           *)
(***************************************************************************)
\* A PATH entry names an eSpeak installation: Windows file names are not
\* case sensitive.
NamesEspeak(p) == Contains(Lower(p), lit_espeak)
PathEntries == Split(GetPath(environ), pathsep)

\* C6: with the bundled executable present, after the setup the first entry
\* of PATH is the bundled espeak directory and no other entry names an
\* eSpeak installation, however 'espeak' is spelled in it; with the bundled
\* executable absent, PATH and the ESPEAK_* / PHONEMIZER_* variables are as
\* they were.
C6_OnlyBundledEspeakOnPath ==
    epc # "start" =>
        IF espeak_exe_exists
        THEN /\ PathEntries[1] = EspeakDir
             /\ \A i \in 2..Len(PathEntries) : ~NamesEspeak(PathEntries[i])
        ELSE environ = environ0

\* a sys.path entry that is neither under AppData nor a site-packages
C9_Neither(p) == ~Contains(p, lit_AppData) /\ ~Contains(p, lit_site_packages)

\* C9: with the bundled executable present, after the filter no sys.path
\* entry contains 'AppData', the entries containing neither 'AppData' nor
\* 'site-packages' are all kept in their order, and with the bundled
\* executable absent sys.path is as it was.
C9_NoAppDataLeftOnSysPath ==
    epc # "start" =>
        IF espeak_exe_exists
        THEN /\ \A i \in 1..Len(sys_path) : ~Contains(sys_path[i], lit_AppData)
             /\ SelectSeq(sys_path, C9_Neither) = SelectSeq(sys_path0, C9_Neither)
        ELSE sys_path = sys_path0


(***************************************************************************)
(* SpecPhon: the phonemizer patches in sys.modules, lines 147-161, and     *)
(* PatchedEspeakBackend.phonemize                                          *)
(***************************************************************************)
PhonemizerKeys ==
    {"phonemizer", "phonemizer.backend", "phonemizer.backend.espeak",
     "phonemizer.backend.EspeakBackend"}

\* Mutant: the patches are installed with setdefault, so a phonemizer that
\* is already in sys.modules stays.
PatchedModules_KeepExisting(mods) ==
    [k \in PhonemizerKeys |-> IF mods[k] = "missing" THEN "patched" ELSE mods[k]]

\* lines 158-161: sys.modules after the four assignments
PatchedModules(mods) == [k \in PhonemizerKeys |-> "patched"]

\* What "from phonemizer.backend import EspeakBackend" gives the importer:
\* the import system returns the sys.modules entry.
ImportedBackend(mods) ==
    CASE mods["phonemizer.backend"] = "patched" -> "PatchedEspeakBackend"
      [] mods["phonemizer.backend"] = "real"    -> "RealEspeakBackend"
      [] OTHER                                   -> "ImportError"

Whitespace == {" ", "\n", "\t", "\r"}

\* s.strip()
RECURSIVE LStrip(_)
LStrip(s) ==
    IF Len(s) > 0 /\ s[1] \in Whitespace THEN LStrip(Tail(s)) ELSE s
RECURSIVE RStrip(_)
RStrip(s) ==
    IF Len(s) > 0 /\ s[Len(s)] \in Whitespace
    THEN RStrip(SubSeq(s, 1, Len(s) - 1)) ELSE s
Strip(s) == RStrip(LStrip(s))

\* s.split(): the maximal runs of non-whitespace characters
RECURSIVE SplitWs(_)
SplitWs(s) ==
    LET t == LStrip(s) IN
    IF Len(t) = 0 THEN <<>>
    ELSE LET n == IF \A i \in 1..Len(t) : t[i] \notin Whitespace
                  THEN Len(t)
                  ELSE (CHOOSE k \in 1..Len(t) :
                           /\ t[k] \in Whitespace
                           /\ \A j \in 1..(k - 1) : t[j] \notin Whitespace) - 1
         IN  <<SubSeq(t, 1, n)>> \o SplitWs(SubSeq(t, n + 1, Len(t)))

\* lines 90-92: ' '.join(result.stdout.strip().split())
CleanIpa(out) == Join(" ", SplitWs(Strip(out)))

\* s.replace(old, new): every occurrence, left to right, not overlapping
RECURSIVE Replace(_, _, _)
Replace(s, old, new) ==
    IF Len(s) < Len(old) THEN s
    ELSE IF SubSeq(s, 1, Len(old)) = old
    THEN new \o Replace(SubSeq(s, Len(old) + 1, Len(s)), old, new)
    ELSE <<s[1]>> \o Replace(Tail(s), old, new)

\* basic_map, in insertion order; an IPA letter is one character, written
\* here by its code point
basic_map ==
    << << <<"a">>, <<"U+00E6">> >>,
       << <<"e">>, <<"U+025B">> >>,
       << <<"i">>, <<"U+026A">> >>,
       << <<"o">>, <<"U+0254">> >>,
       << <<"u">>, <<"U+028A">> >>,
       << <<"t", "h">>, <<"U+03B8">> >>,
       << <<"s", "h">>, <<"U+0283">> >>,
       << <<"c", "h">>, <<"U+02A7">> >>,
       << <<"n", "g">>, <<"U+014B">> >> >>

RECURSIVE ReplaceEach(_, _)
ReplaceEach(s, map) ==
    IF Len(map) = 0 THEN s
    ELSE ReplaceEach(Replace(s, map[1][1], map[1][2]), Tail(map))

\* _text_to_basic_ipa
TextToBasicIpa(text) == ReplaceEach(Lower(text), basic_map)

\* The outcomes of subprocess.run(cmd, capture_output, text, timeout=30)
Completed(rc, out) == [kind |-> "completed", returncode |-> rc, stdout |-> out]
Raised(exc) == [kind |-> exc, returncode |-> 0, stdout |-> <<>>]
StdoutSamples ==
    { <<>>,
      <<" ", "\n">>,
      <<"T", "@", "\n">>,
      <<" ", "h", " ", " ", "@", "\t", "l", "\n">>,
      <<"a", "\n", " ", "b", " ">> }
EspeakOutcomes ==
    {Completed(0, out) : out \in StdoutSamples}
        \cup {Completed(1, <<>>), Completed(1, <<"T", "@", "\n">>)}
        \cup {Raised("TimeoutExpired"), Raised("FileNotFoundError"),
              Raised("UnicodeDecodeError")}

\* line 99: "except Exception" catches the exceptions subprocess.run raises
\* for a timeout, an executable that cannot be started and output that is
\* not UTF-8: all are subclasses of Exception
CaughtByExcept(o) ==
    o.kind \in {"TimeoutExpired", "FileNotFoundError", "UnicodeDecodeError"}

\* line 89: result.returncode == 0 and result.stdout.strip()
EspeakGavePhonemes(o) ==
    /\ o.kind = "completed"
    /\ o.returncode = 0
    /\ Len(Strip(o.stdout)) > 0

\* lines 82-85: the command line of the espeak call
EspeakCmd(text) ==
    <<BackendExe, <<"-", "q">>, <<"-", "-", "i", "p", "a">>>>
        \o (IF espeak_data_exists THEN <<<<"-", "-", "p", "a", "t", "h">>, EspeakDataPath>> ELSE <<>>)
        \o <<text>>

\* Mutant: a failed espeak call yields the plain text.
PhonemeEntry_PlainText(text, o) ==
    IF EspeakGavePhonemes(o) THEN CleanIpa(o.stdout) ELSE text

\* lines 87-102: what one iteration appends to results
PhonemeEntry(text, o) ==
    IF EspeakGavePhonemes(o) THEN CleanIpa(o.stdout) ELSE TextToBasicIpa(text)

\* lines 87-102: the sources of phonemes one iteration consults, in order:
\* one subprocess.run, then _text_to_basic_ipa in the else branch and in the
\* except clause
SourcesTried(o) ==
    IF EspeakGavePhonemes(o) THEN <<"espeak">> ELSE <<"espeak", "substitution">>

\* The texts phonemize may be given
TextPool ==
    { <<"T", "h", "e">>,
      <<"a">>,
      <<"S", "H", "i", "n", "g">> }
StrArg(t) == [is_str |-> TRUE, str |-> t, list |-> <<>>]
ListArg(l) == [is_str |-> FALSE, str |-> <<>>, list |-> l]
TextArgs ==
    {StrArg(t) : t \in TextPool} \cup {ListArg(l) : l \in SeqsUpTo(TextPool, MaxTexts)}

InitPhon ==
    /\ ppc = "start"
    /\ \E m \in {"missing", "real"} : sys_modules = [k \in PhonemizerKeys |-> m]
    /\ backend = "none"
    /\ text_arg \in TextArgs
    /\ text_list = <<>>
    /\ results = <<>>
    /\ returned = <<>>
    /\ calls = <<>>
    /\ tiers = <<>>
    /\ epc = "idle"
    /\ espeak_exe_exists \in BOOLEAN
    /\ espeak_data_exists \in BOOLEAN
    /\ environ = <<>>
    /\ sys_path = <<>>
    /\ environ0 = <<>>
    /\ sys_path0 = <<>>
    /\ backend_exe = <<>>
    /\ InitMainIdle

\* lines 147-161
InstallPatches ==
    /\ ppc = "start"
    /\ ppc' = "patched"
    /\ sys_modules' = PatchedModules(sys_modules)
    /\ UNCHANGED <<backend, text_arg, text_list, results, returned, calls, tiers>>
    /\ UNCHANGED <<mainVars, envVars>>

\* line 164: importing kittentts imports the phonemizer backend
ImportBackend ==
    /\ ppc = "patched"
    /\ ppc' = "imported"
    /\ backend' = ImportedBackend(sys_modules)
    /\ UNCHANGED <<sys_modules, text_arg, text_list, results, returned, calls,
                   tiers>>
    /\ UNCHANGED <<mainVars, envVars>>

\* phonemize, lines 76-79
PhonemizeEnter ==
    /\ ppc = "imported"
    /\ backend = "PatchedEspeakBackend"
    /\ ppc' = "loop"
    /\ text_list' = IF text_arg.is_str THEN <<text_arg.str>> ELSE text_arg.list
    /\ results' = <<>>
    /\ UNCHANGED <<sys_modules, backend, text_arg, returned, calls, tiers>>
    /\ UNCHANGED <<mainVars, envVars>>

\* phonemize, lines 80-102: one iteration of the loop
PhonemizeIteration ==
    /\ ppc = "loop"
    /\ Len(results) < Len(text_list)
    /\ LET text == text_list[Len(results) + 1] IN
       \E o \in EspeakOutcomes :
           /\ calls' = Append(calls, [cmd |-> EspeakCmd(text), outcome |-> o])
           /\ results' = Append(results, PhonemeEntry(text, o))
           /\ tiers' = Append(tiers, SourcesTried(o))
           /\ ppc' = IF o.kind = "completed" \/ CaughtByExcept(o)
                     THEN "loop" ELSE "raised"
    /\ UNCHANGED <<sys_modules, backend, text_arg, text_list, returned>>
    /\ UNCHANGED <<mainVars, envVars>>

\* phonemize, line 104
PhonemizeReturn ==
    /\ ppc = "loop"
    /\ Len(results) = Len(text_list)
    /\ ppc' = "returned"
    /\ returned' = results
    /\ UNCHANGED <<sys_modules, backend, text_arg, text_list, results, calls,
                   tiers>>
    /\ UNCHANGED <<mainVars, envVars>>

NextPhon ==
    \/ InstallPatches
    \/ ImportBackend
    \/ PhonemizeEnter
    \/ PhonemizeIteration
    \/ PhonemizeReturn

SpecPhon == InitPhon /\ [][NextPhon]_vars


(***************************************************************************)
(* Claims about phoneme generation (SpecPhon)                              *)
(***************************************************************************)
\* the texts phonemize was given, as a list
InputTexts == IF text_arg.is_str THEN <<text_arg.str>> ELSE text_arg.list

IsPrefix(s, t) == Len(s) <= Len(t) /\ SubSeq(t, 1, Len(s)) = s

\* C4 as stated: for every text the sources of phonemes are tried in the
\* fixed order real phonemizer, espeak executable, character substitution,
\* starting with the real phonemizer, each at most once.
C4_ThreeTierChain ==
    \A i \in 1..Len(tiers) :
        /\ Len(tiers[i]) >= 1
        /\ IsPrefix(tiers[i], <<"phonemizer", "espeak", "substitution">>)

\* C4 as amended: the chain has two tiers. The patched backend replaces the
\* phonemizer package whatever sys.modules held, so the real phonemizer is
\* never tried; every text gets exactly one call of the espeak executable
\* (the bundled one if it exists, else 'espeak'), and the character
\* substitution is used exactly when that call gave no phonemes; no source
\* is tried twice for a text.
C4_TwoTierChain ==
    /\ ppc \in {"imported", "loop", "returned"} => backend = "PatchedEspeakBackend"
    /\ Len(tiers) = Len(calls)
    /\ Len(calls) <= Len(text_list)
    /\ ppc = "returned" => Len(calls) = Len(InputTexts)
    /\ \A i \in 1..Len(tiers) :
          /\ tiers[i] \in {<<"espeak">>, <<"espeak", "substitution">>}
          /\ (tiers[i] = <<"espeak">>) <=>
                (/\ calls[i].outcome.kind = "completed"
                 /\ calls[i].outcome.returncode = 0
                 /\ \E k \in 1..Len(calls[i].outcome.stdout) :
                        calls[i].outcome.stdout[k] \notin Whitespace)
          /\ calls[i].cmd[1] =
                IF espeak_exe_exists THEN EspeakExePath ELSE lit_espeak
          /\ calls[i].cmd[Len(calls[i].cmd)] = InputTexts[i]

C4_Witness ==
    /\ ppc = "returned"
    /\ Len(tiers) = 2
    /\ tiers[1] = <<"espeak", "substitution">>
    /\ tiers[2] = <<"espeak">>
    /\ backend = "PatchedEspeakBackend"
    /\ calls[1].outcome.kind = "FileNotFoundError"

\* The maximal runs of non-whitespace characters of s, as <<first, last>>
WordRuns(s) ==
    {r \in (1..Len(s)) \X (1..Len(s)) :
        /\ r[1] <= r[2]
        /\ \A k \in r[1]..r[2] : s[k] \notin Whitespace
        /\ (r[1] = 1 \/ s[r[1] - 1] \in Whitespace)
        /\ (r[2] = Len(s) \/ s[r[2] + 1] \in Whitespace)}
\* e is the words of s, in order, separated by single spaces
IsWhitespaceNormalized(e, s) ==
    LET words == Split(e, " ") IN
    /\ Len(words) = Cardinality(WordRuns(s))
    /\ \A r \in WordRuns(s) :
          words[1 + Cardinality({q \in WordRuns(s) : q[1] < r[1]})]
              = SubSeq(s, r[1], r[2])

\* C5: phonemize returns, for a string or a list of strings and whatever
\* each espeak call did, a list with one entry per text in the order of the
\* texts: the whitespace-normalized output of espeak if the call exited 0
\* with output that is not blank, and the character substitution of the
\* text otherwise.
C5_OneEntryPerText ==
    /\ ppc # "raised"
    /\ Len(results) = Len(calls)
    /\ ppc = "returned" =>
          /\ Len(returned) = Len(InputTexts)
          /\ \A i \in 1..Len(returned) :
                LET o == calls[i].outcome IN
                IF /\ o.kind = "completed"
                   /\ o.returncode = 0
                   /\ \E k \in 1..Len(o.stdout) : o.stdout[k] \notin Whitespace
                THEN IsWhitespaceNormalized(returned[i], o.stdout)
                ELSE returned[i] = TextToBasicIpa(InputTexts[i])

C5_Witness ==
    /\ ppc = "returned"
    /\ ~text_arg.is_str
    /\ Len(returned) = 2
    /\ calls[1].outcome.kind = "TimeoutExpired"
    /\ calls[2].outcome = Completed(0, <<" ", "h", " ", " ", "@", "\t", "l", "\n">>)
    /\ returned[1] # InputTexts[1]

=============================================================================
